---- MODULE Spec2Model ----
(***************************************************************************)
(* greg: a modal grid editor.  The model covers the Matrix storage         *)
(* (src/src/matrix.rs), the cursor/view state (src/src/state.rs) and the   *)
(* event loop with its mode handlers (src/src/main.rs).                    *)
(***************************************************************************)
EXTENDS Integers, Sequences, FiniteSets, TLC

\* ------------------------------------------------------------------ bounds
\* rows handed to from_iter: at most MaxRows rows of at most MaxWidth cells
MaxRows == 2
MaxWidth == 2
\* the longest vector handed to From<Vec<T>>
MaxVecLen == 4
\* the calls that change the elements (push_dimension_default, a store through
\* index_mut) are made on matrices of at most this many elements
MaxGrow == 4
\* reshape targets and index coordinates: at most MaxRank axes, entries 0..MaxDim
MaxRank == 3
MaxDim == 2

\* the file of a session: at most MaxFileRows records of at most MaxFileWidth fields
MaxFileRows == 2
MaxFileWidth == 2
\* --headers is one of 0..MaxHeaders
MaxHeaders == 1
\* move_view and move_cursor are called with deltas in -MaxDelta..MaxDelta
MaxDelta == 2
\* the command buffer is typed up to this length under Spec ...
MaxCmdLen == 1
\* ... and up to this length under QuitSpec, which has fewer keys
MaxQuitLen == 4

\* the cursor collections handed to move_cursor and goto_line: 1..MaxCursors cursors
MaxCursors == 2

\* the terminal of a render pass: 0..MaxTermRows rows, 0, 4, .. 4 * MaxTermCols columns
MaxTermRows == 8
MaxTermCols == 3

\* ------------------------------------------------------------------ values
\* T::default() for the integer element type of the tests
Default == 0
Vals == {Default, 1}

RECURSIVE SeqsUpTo(_, _)
SeqsUpTo(S, n) ==
    IF n = 0 THEN {<<>>}
    ELSE LET shorter == SeqsUpTo(S, n - 1)
         IN  shorter \cup {Append(s, x) : s \in {t \in shorter : Len(t) = n - 1}, x \in S}

Min(a, b) == IF a < b THEN a ELSE b
Max(a, b) == IF a > b THEN a ELSE b

\* ------------------------------------------------------------------ Matrix
VARIABLES
    matrix,     \* the Matrix value under test: [elements, dimensions]
    prev,       \* the value before the last call
    op,         \* the last call
    arg,        \* its argument (dimensions, coordinate, <<axis>> or the vector)
    rows,       \* the rows of the last from_iter call
    result,     \* "ok", or the panic message of the last call
    splices     \* the splice offsets of the last push_dimension_default

mvars == <<matrix, prev, op, arg, rows, result, splices>>

\* the State of a session (src/src/state.rs) and the event loop of main
VARIABLES
    headers,    \* State::headers
    mode,       \* State::mode
    status,     \* State::status, a text as the sequence of its pieces
    command,    \* State::command, a text as the sequence of its characters
    view,       \* State::view, <<y, x>>
    cursors,    \* State::cursors
    undo_stack, \* State::undo_stack
    data,       \* State::data
    running,    \* the loop of main has not reached its break
    input       \* the event the last window.getch() returned

svars == <<headers, mode, status, command, view, cursors, undo_stack, data, running, input>>

\* what the render pass at the top of the loop did, NoScreen before it has run
VARIABLE screen

vars == <<matrix, prev, op, arg, rows, result, splices,
          headers, mode, status, command, view, cursors, undo_stack, data, running, input,
          screen>>

\* Iterator::product over usize
RECURSIVE product(_)
product(s) == IF s = <<>> THEN 1 ELSE Head(s) * product(Tail(s))

\* #[derive(Default)]: both vectors empty
MatrixDefault == [elements |-> <<>>, dimensions |-> <<>>]

\* the fold of Matrix::offset over dimensions.zip(index); the assert of line 23
\* makes the whole call panic
RECURSIVE offset_fold(_, _, _, _)
offset_fold(dimensions, index, i, acc) ==
    IF i > Min(Len(dimensions), Len(index)) THEN [ok |-> TRUE, value |-> acc]
    ELSE IF ~(index[i] < dimensions[i]) THEN [ok |-> FALSE, value |-> acc]
    ELSE offset_fold(dimensions, index, i + 1, acc * dimensions[i] + index[i])

offset(m, index) == offset_fold(m.dimensions, index, 1, 0)

\* reshape with its two statements in the other order: the assignment, then
\* the assert_eq
reshape_assigns_first(m, dimensions) ==
    IF Len(m.elements) # product(dimensions)
    THEN [result |-> "matrix cannot be reshaped with the wrong number of elements",
          m |-> [m EXCEPT !.dimensions = dimensions]]
    ELSE [result |-> "ok", m |-> [m EXCEPT !.dimensions = dimensions]]

\* Matrix::reshape: the assert_eq, then the assignment
reshape(m, dimensions) ==
    IF Len(m.elements) # product(dimensions)
    THEN [result |-> "matrix cannot be reshaped with the wrong number of elements", m |-> m]
    ELSE [result |-> "ok", m |-> [m EXCEPT !.dimensions = dimensions]]

\* Matrix::with_shape: reshape on the moved value
with_shape(m, dimensions) == reshape(m, dimensions)

\* splice one place too early: `offset` where the code has `offset + 1`
splice_at_offset(elements, at, count, d) ==
    SubSeq(elements, 1, at - 1) \o [i \in 1..count |-> d] \o SubSeq(elements, at, Len(elements))

\* Vec::splice((at)..(at), repeat_with(T::default).take(count))
splice(elements, at, count, d) ==
    SubSeq(elements, 1, at) \o [i \in 1..count |-> d] \o SubSeq(elements, at + 1, Len(elements))

\* the inner loop restoring a borrowed digit to self.dimensions[next_dim]
\* where the code has self.dimensions[next_dim] - 1
RECURSIVE decrement_restores_full(_, _, _)
decrement_restores_full(self_dimensions, dimensions, next_dim) ==
    IF next_dim < 0 THEN [done |-> TRUE, dimensions |-> dimensions]
    ELSE IF dimensions[next_dim + 1] >= 1
         THEN [done |-> FALSE,
               dimensions |-> [dimensions EXCEPT ![next_dim + 1] = @ - 1]]
         ELSE decrement_restores_full(self_dimensions,
                        [dimensions EXCEPT ![next_dim + 1] = self_dimensions[next_dim + 1]],
                        next_dim - 1)

\* the inner loop of push_dimension_default (lines 64-79): next_dim is the
\* Option<usize> of checked_sub, None written -1
RECURSIVE decrement(_, _, _)
decrement(self_dimensions, dimensions, next_dim) ==
    IF next_dim < 0 THEN [done |-> TRUE, dimensions |-> dimensions]
    ELSE IF dimensions[next_dim + 1] >= 1
         THEN [done |-> FALSE,
               dimensions |-> [dimensions EXCEPT ![next_dim + 1] = @ - 1]]
         ELSE decrement(self_dimensions,
                        [dimensions EXCEPT ![next_dim + 1] = self_dimensions[next_dim + 1] - 1],
                        next_dim - 1)

\* the 'outer loop of push_dimension_default (lines 58-80) and line 81
RECURSIVE push_loop(_, _, _, _, _, _)
push_loop(m, dimensions, dimension, extend_size, d, offsets) ==
    LET off == offset(m, dimensions)
    IN  IF ~off.ok
        THEN [result |-> "matrix index out of range", m |-> m, offsets |-> offsets]
        ELSE IF off.value + 1 > Len(m.elements)
        THEN [result |-> "range end index out of range", m |-> m, offsets |-> offsets]
        ELSE LET spliced == [m EXCEPT !.elements = splice(@, off.value + 1, extend_size, d)]
                 next == decrement(m.dimensions, dimensions, dimension - 1)
                 seen == Append(offsets, off.value)
             IN  IF next.done
                 THEN [result |-> "ok",
                       m |-> [spliced EXCEPT !.dimensions[dimension + 1] = @ + 1],
                       offsets |-> seen]
                 ELSE push_loop(spliced, next.dimensions, dimension, extend_size, d, seen)

\* Matrix::push_dimension_default.  A dimension of 0 makes `dim - 1` of line 56
\* overflow: with overflow checks the call panics there; without them the value
\* wraps to usize::MAX and the assert of offset fails on that axis in the first
\* iteration.  Either way nothing has been spliced yet.
push_dimension_default(m, dimension, d, overflow_checks) ==
    IF ~(dimension < Len(m.dimensions))
    THEN [result |-> "matrix dimension out of bounds", m |-> m, offsets |-> <<>>]
    ELSE IF \E i \in 1..Len(m.dimensions) : m.dimensions[i] = 0
    THEN [result |-> IF overflow_checks THEN "attempt to subtract with overflow"
                     ELSE "matrix index out of range",
          m |-> m, offsets |-> <<>>]
    ELSE push_loop(m,
                   [i \in 1..Len(m.dimensions) |-> m.dimensions[i] - 1],
                   dimension,
                   product(SubSeq(m.dimensions, dimension + 2, Len(m.dimensions))),
                   d, <<>>)

\* Index<&[usize]>::index: the assert_eq on the rank, offset, the Vec index
index(m, coord) ==
    IF Len(coord) # Len(m.dimensions)
    THEN [result |-> "incorrect matrix index dimension", value |-> Default]
    ELSE LET off == offset(m, coord)
         IN  IF ~off.ok THEN [result |-> "matrix index out of range", value |-> Default]
             ELSE IF ~(off.value < Len(m.elements))
             THEN [result |-> "index out of bounds", value |-> Default]
             ELSE [result |-> "ok", value |-> m.elements[off.value + 1]]

\* IndexMut<&[usize]>::index_mut followed by the caller's store through the
\* returned reference
index_mut(m, coord, v) ==
    IF Len(coord) # Len(m.dimensions)
    THEN [result |-> "incorrect matrix index dimension", m |-> m]
    ELSE LET off == offset(m, coord)
         IN  IF ~off.ok THEN [result |-> "matrix index out of range", m |-> m]
             ELSE IF ~(off.value < Len(m.elements))
             THEN [result |-> "index out of bounds", m |-> m]
             ELSE [result |-> "ok", m |-> [m EXCEPT !.elements[off.value + 1] = v]]

\* From<Vec<T>>::from
from(elements) == [elements |-> elements, dimensions |-> <<Len(elements)>>]

\* Into<Vec<T>>::into
into(m) == m.elements

\* rows.iter().map(|record| record.len()).max()
RECURSIVE max_len(_)
max_len(rs) == IF rs = <<>> THEN 0 ELSE Max(Len(Head(rs)), max_len(Tail(rs)))

\* the padding chained in front of the row instead of behind it
RECURSIVE flat_map_pad_first(_, _, _)
flat_map_pad_first(rs, max_width, d) ==
    IF rs = <<>> THEN <<>>
    ELSE [i \in 1..(max_width - Len(Head(rs))) |-> d] \o Head(rs)
         \o flat_map_pad_first(Tail(rs), max_width, d)

\* the flat_map of from_iter: each row chained with max_width - len defaults
RECURSIVE flat_map(_, _, _)
flat_map(rs, max_width, d) ==
    IF rs = <<>> THEN <<>>
    ELSE Head(rs) \o [i \in 1..(max_width - Len(Head(rs))) |-> d]
         \o flat_map(Tail(rs), max_width, d)

\* FromIterator<Vec<T>>::from_iter; elements.len() / max_width panics when
\* max_width is 0
from_iter(rs, d) ==
    LET max_width == IF rs = <<>> THEN 1 ELSE max_len(rs)
        elements == flat_map(rs, max_width, d)
    IN  IF max_width = 0
        THEN [result |-> "attempt to divide by zero", m |-> MatrixDefault]
        ELSE [result |-> "ok",
              m |-> [elements |-> elements,
                     dimensions |-> <<Len(elements) \div max_width, max_width>>]]

\* ------------------------------------------------------------------ State
\* Cursor::new: position and pinned from Cursor::default()
Cursor_new(row, column) ==
    [row |-> row, column |-> column, position |-> 0, pinned |-> FALSE]

\* usize::saturating_sub
saturating_sub(a, b) == IF a >= b THEN a - b ELSE 0

\* i32::max(lo, i32::min(hi, x)), the shape of both halves of move_view and
\* move_cursor
clamp(lo, hi, x) == Max(lo, Min(hi, x))

\* move_view clamping the row to dimensions()[0], without the saturating_sub(1)
move_view_past_end(s, dy, dx) ==
    [s EXCEPT !.view =
        <<clamp(s.headers, s.data.dimensions[1], s.view[1] + dy),
          clamp(0, saturating_sub(s.data.dimensions[2], 1), s.view[2] + dx)>>]

\* State::move_view
move_view(s, dy, dx) ==
    [s EXCEPT !.view =
        <<clamp(s.headers, saturating_sub(s.data.dimensions[1], 1), s.view[1] + dy),
          clamp(0, saturating_sub(s.data.dimensions[2], 1), s.view[2] + dx)>>]

\* move_cursor without the filter on `pinned`
move_cursor_unfiltered(s, dy, dx) ==
    [s EXCEPT !.cursors =
        [i \in 1..Len(s.cursors) |->
            [s.cursors[i] EXCEPT
                !.row = clamp(s.headers, saturating_sub(s.data.dimensions[1], 1),
                              s.cursors[i].row + dy),
                !.column = clamp(0, saturating_sub(s.data.dimensions[2], 1),
                                 s.cursors[i].column + dx)]]]

\* State::move_cursor: every cursor that is not pinned
move_cursor(s, dy, dx) ==
    [s EXCEPT !.cursors =
        [i \in 1..Len(s.cursors) |->
            IF s.cursors[i].pinned THEN s.cursors[i]
            ELSE [s.cursors[i] EXCEPT
                    !.row = clamp(s.headers, saturating_sub(s.data.dimensions[1], 1),
                                  s.cursors[i].row + dy),
                    !.column = clamp(0, saturating_sub(s.data.dimensions[2], 1),
                                     s.cursors[i].column + dx)]]]

\* goto_line without the clear()
goto_line_keeps(s, line) == [s EXCEPT !.cursors = Append(@, Cursor_new(line, 0))]

\* State::goto_line
goto_line(s, line) == [s EXCEPT !.cursors = <<Cursor_new(line, 0)>>]

\* ------------------------------------------------------------------ events
\* pancurses::Input: Character(ch) or a named key
Character(ch) == [kind |-> "Character", ch |-> ch]
Key(name) == [kind |-> name, ch |-> ""]
Escape == "\\u{1b}"
Enter == "\n"
NoInput == Key("None")

\* char::is_ascii_graphic over the characters of the model: every one of them
\* but Escape, Enter and the space
is_ascii_graphic(ch) == ch \notin {Escape, Enter, " "}

\* {:?} of an Input
Debug(in) ==
    IF in.kind = "Character"
    THEN <<"Character('", IF in.ch = Enter THEN "\\n" ELSE in.ch, "')">>
    ELSE <<in.kind>>

\* "quit" as the command buffer holds it
quit == <<"q", "u", "i", "t">>

\* 'j' and 'k' with each other's delta
normal_mode_jk_swapped(s, in) ==
    LET c == [s EXCEPT !.status = <<>>]
    IN  IF in = Character("i") THEN [c EXCEPT !.mode = "Insert"]
        ELSE IF in = Character(":") THEN [c EXCEPT !.mode = "Command"]
        ELSE IF in = Character("/") THEN [c EXCEPT !.mode = "Search"]
        ELSE IF in = Character("v") THEN [c EXCEPT !.mode = "View"]
        ELSE IF in = Character("h") THEN move_cursor(c, 0, -1)
        ELSE IF in = Character("j") THEN move_cursor(c, -1, 0)
        ELSE IF in = Character("k") THEN move_cursor(c, 1, 0)
        ELSE IF in = Character("l") THEN move_cursor(c, 0, 1)
        ELSE [c EXCEPT !.status = <<"received ">> \o Debug(in)]

\* fn normal_mode
normal_mode(s, in) ==
    LET c == [s EXCEPT !.status = <<>>]
    IN  IF in = Character("i") THEN [c EXCEPT !.mode = "Insert"]
        ELSE IF in = Character(":") THEN [c EXCEPT !.mode = "Command"]
        ELSE IF in = Character("/") THEN [c EXCEPT !.mode = "Search"]
        ELSE IF in = Character("v") THEN [c EXCEPT !.mode = "View"]
        ELSE IF in = Character("h") THEN move_cursor(c, 0, -1)
        ELSE IF in = Character("j") THEN move_cursor(c, 1, 0)
        ELSE IF in = Character("k") THEN move_cursor(c, -1, 0)
        ELSE IF in = Character("l") THEN move_cursor(c, 0, 1)
        ELSE [c EXCEPT !.status = <<"received ">> \o Debug(in)]

\* view_mode with normal_mode's 'i' arm copied in
view_mode_with_insert(s, in) ==
    LET c == [s EXCEPT !.status = <<>>]
    IN  IF in = Character("i") THEN [c EXCEPT !.mode = "Insert"]
        ELSE IF in = Character(":") THEN [c EXCEPT !.mode = "Command"]
        ELSE IF in = Character("/") THEN [c EXCEPT !.mode = "Search"]
        ELSE IF in = Character(Escape) THEN [c EXCEPT !.mode = "Normal"]
        ELSE IF in = Character("h") THEN move_view(c, 0, -1)
        ELSE IF in = Character("j") THEN move_view(c, 1, 0)
        ELSE IF in = Character("k") THEN move_view(c, -1, 0)
        ELSE IF in = Character("l") THEN move_view(c, 0, 1)
        ELSE c

\* fn view_mode
view_mode(s, in) ==
    LET c == [s EXCEPT !.status = <<>>]
    IN  IF in = Character(":") THEN [c EXCEPT !.mode = "Command"]
        ELSE IF in = Character("/") THEN [c EXCEPT !.mode = "Search"]
        ELSE IF in = Character(Escape) THEN [c EXCEPT !.mode = "Normal"]
        ELSE IF in = Character("h") THEN move_view(c, 0, -1)
        ELSE IF in = Character("j") THEN move_view(c, 1, 0)
        ELSE IF in = Character("k") THEN move_view(c, -1, 0)
        ELSE IF in = Character("l") THEN move_view(c, 0, 1)
        ELSE c

\* insert_mode with the TODO filled in: the Matrix is pushed on the undo stack
\* and the character stored in the cell at the first cursor
insert_mode_writes(s, in) ==
    LET c == [s EXCEPT !.status = <<>>]
    IN  IF in = Character(Escape) THEN [c EXCEPT !.mode = "Normal"]
        ELSE IF in.kind = "Character" /\ is_ascii_graphic(in.ch) /\ c.cursors # <<>>
        THEN [c EXCEPT
                !.undo_stack = Append(@, c.data),
                !.data = index_mut(c.data, <<c.cursors[1].row, c.cursors[1].column>>,
                                   in.ch).m]
        ELSE c

\* fn insert_mode: the arm of a graphic character is a TODO and does nothing
insert_mode(s, in) ==
    LET c == [s EXCEPT !.status = <<>>]
    IN  IF in = Character(Escape) THEN [c EXCEPT !.mode = "Normal"]
        ELSE c

\* the character taken from the front of the text instead of the back
pop_front(text) == IF text = <<>> THEN text ELSE SubSeq(text, 2, Len(text))

\* String::pop
pop(text) == IF text = <<>> THEN text ELSE SubSeq(text, 1, Len(text) - 1)

\* command_mode whose Escape arm forgets state.command.clear()
command_mode_escape_keeps(s, in) ==
    IF in = Character(Escape)
    THEN [s |-> [s EXCEPT !.mode = "Normal"], commit |-> FALSE]
    ELSE IF in = Character(Enter)
    THEN [s |-> [s EXCEPT !.mode = "Normal"], commit |-> TRUE]
    ELSE IF in.kind = "Character" /\ is_ascii_graphic(in.ch)
    THEN [s |-> [s EXCEPT !.command = Append(@, in.ch)], commit |-> FALSE]
    ELSE IF in = Key("KeyBackspace")
    THEN [s |-> [s EXCEPT !.command = pop(@)], commit |-> FALSE]
    ELSE [s |-> s, commit |-> FALSE]

\* fn command_mode: the state it leaves and the bool it returns
command_mode(s, in) ==
    IF in = Character(Escape)
    THEN [s |-> [s EXCEPT !.mode = "Normal", !.command = <<>>], commit |-> FALSE]
    ELSE IF in = Character(Enter)
    THEN [s |-> [s EXCEPT !.mode = "Normal"], commit |-> TRUE]
    ELSE IF in.kind = "Character" /\ is_ascii_graphic(in.ch)
    THEN [s |-> [s EXCEPT !.command = Append(@, in.ch)], commit |-> FALSE]
    ELSE IF in = Key("KeyBackspace")
    THEN [s |-> [s EXCEPT !.command = pop(@)], commit |-> FALSE]
    ELSE [s |-> s, commit |-> FALSE]

\* the TODO of line 70 done carelessly: any prefix of "quit" breaks the loop
is_prefix(a, b) == Len(a) <= Len(b) /\ a = SubSeq(b, 1, Len(a))
command_arm_prefix_quits(s, in) ==
    LET r == command_mode(s, in)
        cmd == r.s.command
        taken == [r.s EXCEPT !.command = <<>>]
    IN  IF ~r.commit THEN r.s
        ELSE IF cmd # <<>> /\ is_prefix(cmd, <<"q", "u", "i", "t">>)
        THEN [taken EXCEPT !.running = FALSE]
        ELSE [taken EXCEPT !.status = <<"unknown command '">> \o cmd \o <<"'">>,
                           !.mode = "Normal"]

\* the buffer read by reference instead of std::mem::take
command_arm_borrows(s, in) ==
    LET r == command_mode(s, in)
        cmd == r.s.command
    IN  IF ~r.commit THEN r.s
        ELSE IF cmd = <<"q", "u", "i", "t">> THEN [r.s EXCEPT !.running = FALSE]
        ELSE [r.s EXCEPT !.status = <<"unknown command '">> \o cmd \o <<"'">>,
                         !.mode = "Normal"]

\* the Command arm of main's match (lines 68-80): std::mem::take on the buffer,
\* then "quit" breaks out of the loop
command_arm(s, in) ==
    LET r == command_mode(s, in)
        cmd == r.s.command
        taken == [r.s EXCEPT !.command = <<>>]
    IN  IF ~r.commit THEN r.s
        ELSE IF cmd = quit THEN [taken EXCEPT !.running = FALSE]
        ELSE [taken EXCEPT !.status = <<"unknown command '">> \o cmd \o <<"'">>,
                           !.mode = "Normal"]

\* the Search arm of main's match (lines 81-89)
search_arm(s, in) ==
    LET r == command_mode(s, in)
    IN  IF ~r.commit THEN r.s
        ELSE [r.s EXCEPT !.mode = "Normal", !.command = <<>>]

\* the match without its first two arms: every event goes to the mode's handler
dispatch_by_mode(s, in) ==
    IF s.mode = "View" THEN view_mode(s, in)
    ELSE IF s.mode = "Insert" THEN insert_mode(s, in)
    ELSE IF s.mode = "Command" THEN command_arm(s, in)
    ELSE IF s.mode = "Search" THEN search_arm(s, in)
    ELSE normal_mode(s, in)

\* the match of main's loop on window.getch() (lines 59-92), arms in order
dispatch(s, in) ==
    IF in = Key("KeyResize") THEN s
    ELSE IF in = Key("KeyMouse") THEN s
    ELSE IF s.mode = "View" THEN view_mode(s, in)
    ELSE IF s.mode = "Insert" THEN insert_mode(s, in)
    ELSE IF s.mode = "Command" THEN command_arm(s, in)
    ELSE IF s.mode = "Search" THEN search_arm(s, in)
    ELSE normal_mode(s, in)

\* State::default()
StateDefault ==
    [headers |-> 0, mode |-> "Normal", status |-> <<>>, command |-> <<>>,
     view |-> <<0, 0>>, cursors |-> <<>>, undo_stack |-> <<>>,
     data |-> MatrixDefault, running |-> TRUE]

\* the State main builds (lines 49-56) around the Matrix collected from the records
main_state(records, args_headers) ==
    [StateDefault EXCEPT
        !.headers = args_headers,
        !.data = from_iter(records, "").m,
        !.view = <<args_headers, 0>>,
        !.cursors = <<Cursor_new(args_headers, 0)>>]

\* the session's variables as one State value, and back
State ==
    [headers |-> headers, mode |-> mode, status |-> status, command |-> command,
     view |-> view, cursors |-> cursors, undo_stack |-> undo_stack,
     data |-> data, running |-> running]

IsState(s) ==
    /\ headers = s.headers
    /\ mode = s.mode
    /\ status = s.status
    /\ command = s.command
    /\ view = s.view
    /\ cursors = s.cursors
    /\ undo_stack = s.undo_stack
    /\ data = s.data
    /\ running = s.running

Becomes(s) ==
    /\ headers' = s.headers
    /\ mode' = s.mode
    /\ status' = s.status
    /\ command' = s.command
    /\ view' = s.view
    /\ cursors' = s.cursors
    /\ undo_stack' = s.undo_stack
    /\ data' = s.data
    /\ running' = s.running

\* ------------------------------------------------------------------ render
\* usize is modelled 16 bits wide: every size of the model is far below 2^16,
\* and a wrapped value is far above every one of them, as with 64 bits
Usize == 2 ^ 16

\* a - b on usize without overflow checks
wrapping_sub(a, b) == IF a >= b THEN a - b ELSE a - b + Usize

\* `as usize` of an i32: a negative value is sign-extended
as_usize(i) == IF i < 0 THEN i + Usize ELSE i

\* (n as f32).log10().ceil() as usize: log10(0) is -inf, which the cast
\* saturates to 0; the powers of ten of the model are exact in f32
RECURSIVE log10_ceil(_)
log10_ceil(n) == IF n <= 1 THEN 0 ELSE 1 + log10_ceil((n + 9) \div 10)

\* .chars().take(max).count() of a cell; the cells of the model are "" or one
\* character long
chars_take_count(cell, max) == Min(max, IF cell = "" THEN 0 ELSE 1)

\* usize::max over the widths of the cells read in one column
RECURSIVE widest(_, _, _, _)
widest(m, coords, max, width) ==
    IF coords = <<>> THEN width
    ELSE widest(m, Tail(coords), max,
                Max(width, chars_take_count(index(m, Head(coords)).value, max)))

\* the coordinates render indexes in one column, in order: the header cells
\* (lines 207-214), then the data cells (lines 219-226).  Of a run of data
\* rows that leaves the Matrix only the first row outside it is listed: the
\* index panics there.
column_cells(s, rows_to_show, column) ==
    LET inside == saturating_sub(s.data.dimensions[1], s.view[1])
        count == Min(rows_to_show, inside + 1)
    IN  [i \in 1..s.headers |-> <<i - 1, column>>]
        \o [i \in 1..count |-> <<s.view[1] + i - 1, column>>]

\* the `while x < max_x && column < data.dimensions()[1]` loop (lines 202-231)
RECURSIVE columns(_, _, _, _, _, _, _)
columns(s, column_width, rows_to_show, max_x, x, column, reads) ==
    IF ~(x < max_x /\ column < s.data.dimensions[2])
    THEN [result |-> "ok", reads |-> reads, x |-> x]
    ELSE LET cells == column_cells(s, rows_to_show, column)
             bad == {k \in 1..Len(cells) : index(s.data, cells[k]).result # "ok"}
         IN  IF bad # {}
             THEN LET first == CHOOSE k \in bad : \A l \in bad : k <= l
                  IN  [result |-> index(s.data, cells[first]).result,
                       reads |-> reads \o SubSeq(cells, 1, first),
                       x |-> x]
             ELSE columns(s, column_width, rows_to_show, max_x,
                          x + widest(s.data, cells, column_width[2], column_width[1]) + 3,
                          column + 1, reads \o cells)

\* fn render, for a terminal of max_y rows and max_x columns.  The drawing
\* calls go to the window; what is kept is how the pass ended, the guide values
\* and the Matrix coordinates it indexed.  Each usize subtraction panics in a
\* build with overflow checks and wraps in one without.  column_width is
\* State::column_width, set from the arguments and never written again.
render(s, column_width, max_y, max_x, overflow_checks) ==
    LET y == IF s.headers = 0 THEN 0 ELSE s.headers + 1
        usable == max_y - 2
        data_rows == s.data.dimensions[1]
        half == as_usize(usable) \div 2
        rows_to_show == Min(wrapping_sub(data_rows, s.view[1]), wrapping_sub(half, s.headers))
        bottom_position == (s.headers + rows_to_show * 2) % Usize
        digits == log10_ceil((rows_to_show + s.view[1]) % Usize)
        table == columns(s, column_width, rows_to_show, max_x, digits + 2, s.view[2], <<>>)
        underflows ==
            (IF s.view[1] > data_rows THEN {"data_rows - view.row"} ELSE {})
            \cup (IF s.headers > half THEN {"usable_rows / 2 - headers"} ELSE {})
            \cup (IF rows_to_show = 0 THEN {"rows_to_show - 1"} ELSE {})
            \cup (IF s.cursors # <<>> /\ s.cursors[1].row < s.headers
                  THEN {"cursors[0].row - headers"} ELSE {})
            \cup (IF data_rows < s.headers THEN {"data_rows - headers"} ELSE {})
        guides == [rows_to_show |-> rows_to_show, digits |-> digits, x |-> digits + 2,
                   y |-> y, bottom_position |-> bottom_position,
                   max_y |-> max_y, max_x |-> max_x, underflows |-> underflows]
        ended(how, reads) == [result |-> how, reads |-> reads, guides |-> guides]
        overflow == "attempt to subtract with overflow"
    IN  IF overflow_checks /\ s.view[1] > data_rows THEN ended(overflow, <<>>)
        ELSE IF overflow_checks /\ s.headers > half THEN ended(overflow, <<>>)
        ELSE IF table.result # "ok" THEN ended(table.result, table.reads)
        ELSE IF overflow_checks /\ rows_to_show = 0 THEN ended(overflow, table.reads)
        ELSE IF s.cursors = <<>> THEN ended("index out of bounds", table.reads)
        ELSE IF overflow_checks /\ s.cursors[1].row < s.headers
        THEN ended(overflow, table.reads)
        ELSE IF overflow_checks /\ data_rows < s.headers THEN ended(overflow, table.reads)
        ELSE ended("ok", table.reads)

\* no render pass has run since the last event
NoScreen == [result |-> "none", reads |-> <<>>, guides |-> <<>>]

\* ------------------------------------------------------------------ inputs
Vecs == SeqsUpTo(Vals, MaxVecLen)
RowSets == SeqsUpTo(SeqsUpTo(Vals, MaxWidth), MaxRows)
DimSeqs == SeqsUpTo(0..MaxDim, MaxRank)

\* the shapes tried by reshape on a matrix: those of DimSeqs that hold as many
\* elements as the matrix, one fewer or one more
ReshapeTargets(m) ==
    {d \in DimSeqs : product(d) \in (Len(m.elements) - 1)..(Len(m.elements) + 1)}

RECURSIVE max_of(_)
max_of(s) == IF s = <<>> THEN 0 ELSE Max(Head(s), max_of(Tail(s)))

\* the coordinates tried on a matrix: of its rank, each entry inside its axis or
\* one past the end of it; and the origin with one axis fewer and one axis more
Coords(m) ==
    LET rank == Len(m.dimensions)
    IN  {c \in [1..rank -> 0..max_of(m.dimensions)] :
             \A i \in 1..rank : c[i] <= m.dimensions[i]}
        \cup {[i \in 1..n |-> 0] : n \in {rank - 1, rank + 1} \cap Nat}

\* ------------------------------------------------------------------ calls
\* Construction: the three ways a Matrix comes to be.  A from_iter that panics
\* yields no value at all.
MInit ==
    /\ IsState(StateDefault)
    /\ input = NoInput
    /\ screen = NoScreen
    /\ prev = MatrixDefault
    /\ splices = <<>>
    /\ \/ /\ matrix = MatrixDefault
          /\ op = "default"
          /\ arg = <<>>
          /\ rows = <<>>
          /\ result = "ok"
       \/ \E v \in Vecs :
              /\ matrix = from(v)
              /\ op = "from"
              /\ arg = v
              /\ rows = <<>>
              /\ result = "ok"
       \/ \E rs \in RowSets :
              LET r == from_iter(rs, Default)
              IN  /\ matrix = r.m
                  /\ op = "from_iter"
                  /\ arg = <<>>
                  /\ rows = rs
                  /\ result = r.result

Constructors == {"default", "from", "from_iter"}

\* no call in progress on the value at hand
Idle == op = "idle"

\* the caller is done with the outcome of the last call; a constructor that
\* panicked left nothing to go on with
Return ==
    /\ ~Idle
    /\ ~(op \in Constructors /\ result # "ok")
    /\ op' = "idle"
    /\ prev' = matrix
    /\ arg' = <<>>
    /\ rows' = <<>>
    /\ result' = "ok"
    /\ splices' = <<>>
    /\ UNCHANGED matrix
    /\ UNCHANGED svars
    /\ UNCHANGED screen

\* reshape, called directly or through with_shape on the moved value
CallReshape ==
    /\ Idle
    /\ \E dimensions \in ReshapeTargets(matrix), by_value \in BOOLEAN :
        LET r == IF by_value THEN with_shape(matrix, dimensions)
                 ELSE reshape(matrix, dimensions)
        IN  /\ matrix' = r.m
            /\ prev' = matrix
            /\ op' = "reshape"
            /\ arg' = dimensions
            /\ result' = r.result
            /\ UNCHANGED <<rows, splices>>
            /\ UNCHANGED svars
            /\ UNCHANGED screen

CallPushDimensionDefault ==
    /\ Idle
    /\ \E dimension \in 0..MaxRank, overflow_checks \in BOOLEAN :
        LET r == push_dimension_default(matrix, dimension, Default, overflow_checks)
        IN  /\ Len(matrix.elements) <= MaxGrow
            /\ matrix' = r.m
            /\ prev' = matrix
            /\ op' = "push_dimension_default"
            /\ arg' = <<dimension>>
            /\ result' = r.result
            /\ splices' = r.offsets
            /\ UNCHANGED rows
            /\ UNCHANGED svars
            /\ UNCHANGED screen

CallIndex ==
    /\ Idle
    /\ \E coord \in Coords(matrix) :
        /\ prev' = matrix
        /\ op' = "index"
        /\ arg' = coord
        /\ result' = index(matrix, coord).result
        /\ UNCHANGED <<matrix, rows, splices>>
        /\ UNCHANGED svars
        /\ UNCHANGED screen

CallIndexMut ==
    /\ Idle
    /\ Len(matrix.elements) <= MaxGrow
    /\ \E coord \in Coords(matrix), v \in Vals :
        LET r == index_mut(matrix, coord, v)
        IN  /\ matrix' = r.m
            /\ prev' = matrix
            /\ op' = "index_mut"
            /\ arg' = coord
            /\ result' = r.result
            /\ UNCHANGED <<rows, splices>>
            /\ UNCHANGED svars
            /\ UNCHANGED screen

MNext ==
    \/ Return
    \/ CallReshape
    \/ CallPushDimensionDefault
    \/ CallIndex
    \/ CallIndexMut

MatrixSpec == MInit /\ [][MNext]_vars

\* ------------------------------------------------------------------ Matrix properties
\* every coordinate inside a shape
InRange(dimensions) ==
    {c \in [1..Len(dimensions) -> 0..max_of(dimensions)] :
         \A i \in 1..Len(dimensions) : c[i] < dimensions[i]}

\* a Matrix value is at hand (a from_iter that panicked built none)
ValueExists == ~(op \in Constructors /\ result # "ok")

\* the instances of test::matrix_push_dimension_default_0..3
Rows123 == <<<<1, 2, 3>>, <<1, 2, 3>>, <<1, 2, 3>>>>
Cube1234 == with_shape(from(<<1, 2, 3, 4, 1, 2, 3, 4>>), <<2, 2, 2>>).m
PushTests ==
    /\ push_dimension_default(from_iter(Rows123, 0).m, 0, 0, TRUE).m
         = [dimensions |-> <<4, 3>>, elements |-> <<1, 2, 3, 1, 2, 3, 1, 2, 3, 0, 0, 0>>]
    /\ push_dimension_default(from_iter(Rows123, 0).m, 1, 0, TRUE).m
         = [dimensions |-> <<3, 4>>, elements |-> <<1, 2, 3, 0, 1, 2, 3, 0, 1, 2, 3, 0>>]
    /\ push_dimension_default(Cube1234, 1, 0, TRUE).m
         = [dimensions |-> <<2, 3, 2>>, elements |-> <<1, 2, 3, 4, 0, 0, 1, 2, 3, 4, 0, 0>>]
    /\ push_dimension_default(Cube1234, 2, 0, TRUE).m
         = [dimensions |-> <<2, 2, 3>>, elements |-> <<1, 2, 0, 3, 4, 0, 1, 2, 0, 3, 4, 0>>]

\* C1: push_dimension_default(axis) on a matrix whose dimensions are all >= 1,
\* with axis < rank, succeeds, adds exactly 1 to dimensions[axis] and leaves the
\* other dimensions alone; a coordinate below the old end of the axis reads the
\* element it read before, a coordinate at the old end reads the default value;
\* and the four instances of the tests come out as the tests say.
PushDimensionDefaultGrowsAxis ==
    /\ PushTests
    /\ (/\ op = "push_dimension_default"
        /\ arg[1] < Len(prev.dimensions)
        /\ \A i \in 1..Len(prev.dimensions) : prev.dimensions[i] >= 1)
       => /\ result = "ok"
          /\ matrix.dimensions = [prev.dimensions EXCEPT ![arg[1] + 1] = @ + 1]
          /\ \A c \in InRange(matrix.dimensions) :
                 /\ index(matrix, c).result = "ok"
                 /\ IF c[arg[1] + 1] < prev.dimensions[arg[1] + 1]
                    THEN index(matrix, c) = index(prev, c)
                    ELSE index(matrix, c).value = Default

\* a middle axis of a [2,1,2] matrix of non-default elements was grown
PushDimensionDefaultWitness ==
    /\ op = "push_dimension_default"
    /\ result = "ok"
    /\ arg = <<1>>
    /\ prev = [elements |-> <<1, 1, 1, 1>>, dimensions |-> <<2, 1, 2>>]
    /\ matrix.dimensions = <<2, 2, 2>>

\* C2: elements.len() == product(dimensions) for every Matrix value, however it
\* was constructed and whatever calls were made on it.
LenIsProductOfDimensions ==
    ValueExists => Len(matrix.elements) = product(matrix.dimensions)

\* C3: building a Matrix from rows never fails, and the result has dimensions
\* [row_count, max_width], max_width being the longest row's length (1 without rows).
FromIterNeverFails ==
    op = "from_iter"
    => /\ result = "ok"
       /\ matrix.dimensions = <<Len(rows), IF rows = <<>> THEN 1 ELSE max_len(rows)>>

\* C4: in the Matrix built from ragged rows, the cell at [r, c] is rows[r][c] for
\* c < len(rows[r]) and the default value for len(rows[r]) <= c < max_row_len;
\* rows [["a","b"],["c"]] give dimensions [2,2] and "" at (1,1).
FromIterKeepsCellsAndPads ==
    /\ LET ab == from_iter(<<<<"a", "b">>, <<"c">>>>, "").m
       IN  /\ ab.dimensions = <<2, 2>>
           /\ ab.elements[offset(ab, <<1, 1>>).value + 1] = ""
           /\ ab.elements[offset(ab, <<1, 0>>).value + 1] = "c"
    /\ (op = "from_iter" /\ result = "ok")
       => \A r \in 1..Len(rows) : \A c \in 0..(max_len(rows) - 1) :
              /\ index(matrix, <<r - 1, c>>).result = "ok"
              /\ index(matrix, <<r - 1, c>>).value
                   = IF c < Len(rows[r]) THEN rows[r][c + 1] ELSE Default

\* a ragged pair of rows, the second one padded
FromIterWitness ==
    /\ op = "from_iter"
    /\ result = "ok"
    /\ rows = <<<<1, 1>>, <<1>>>>
    /\ matrix.dimensions = <<2, 2>>

\* the row-major offset of a coordinate under a shape: fold(acc * len + idx)
RECURSIVE RowMajor(_, _, _, _)
RowMajor(dimensions, c, i, acc) ==
    IF i > Len(dimensions) THEN acc
    ELSE RowMajor(dimensions, c, i + 1, acc * dimensions[i] + c[i])

\* C13: reshape (and with_shape) to dimensions whose product equals the element
\* count changes only the dimensions, the flat elements being the same before
\* and after; an access at coordinate c then reads the element at the row-major
\* offset of c under the new dimensions (a vector v shaped [2,2,2] reads
\* v[4i+2j+k] at [i,j,k]); reshaping back to the original dimensions restores
\* the matrix; and a vector made a Matrix and back is the same vector.
ReshapeRoundTrip ==
    /\ \A v \in Vecs : into(from(v)) = v
    /\ LET v == <<1, 2, 3, 4, 5, 6, 7, 8>>
           m == with_shape(from(v), <<2, 2, 2>>).m
       IN  \A i \in 0..1, j \in 0..1, k \in 0..1 :
               index(m, <<i, j, k>>) = [result |-> "ok", value |-> v[4 * i + 2 * j + k + 1]]
    /\ (op = "from") => into(matrix) = arg
    /\ (op = "reshape" /\ product(arg) = Len(prev.elements))
       => /\ result = "ok"
          /\ matrix.elements = prev.elements
          /\ matrix.dimensions = arg
          /\ \A c \in InRange(arg) :
                 index(matrix, c)
                   = [result |-> "ok", value |-> prev.elements[RowMajor(arg, c, 1, 0) + 1]]
          /\ reshape(matrix, prev.dimensions) = [result |-> "ok", m |-> prev]
          /\ with_shape(matrix, prev.dimensions) = [result |-> "ok", m |-> prev]

\* C14: reshape to dimensions whose product differs from the element count
\* fails (the ShapeMismatch of the specification is the panic of the assert_eq)
\* and leaves the dimensions and the elements as they were.
ReshapeMismatchFails ==
    (op = "reshape" /\ product(arg) # Len(prev.elements))
    => /\ result = "matrix cannot be reshaped with the wrong number of elements"
       /\ matrix.dimensions = prev.dimensions
       /\ matrix.elements = prev.elements

\* a vector of two elements was refused the shape [1]
ReshapeRefused ==
    /\ op = "reshape"
    /\ result # "ok"
    /\ prev = [elements |-> <<1, 1>>, dimensions |-> <<2>>]
    /\ arg = <<1>>

\* C15: for every matrix and every coordinate vector, Index and IndexMut fail
\* with the rank error when the coordinate's length differs from the rank, with
\* the range error when the length matches and some coord[i] >= dimensions[i],
\* and succeed otherwise; a failed access leaves the matrix unchanged.
IndexFailsOrSucceeds ==
    op \in {"index", "index_mut"}
    => /\ IF Len(arg) # Len(prev.dimensions)
          THEN result = "incorrect matrix index dimension"
          ELSE IF \E i \in 1..Len(arg) : arg[i] >= prev.dimensions[i]
          THEN result = "matrix index out of range"
          ELSE result = "ok"
       /\ (result # "ok") => matrix = prev

\* C21: on a matrix whose dimensions are all >= 1, with a valid axis, the
\* splice loop of push_dimension_default ends after exactly
\* product(dimensions[0..axis]) splices of product(dimensions[axis+1..]) default
\* values each; the counter visits the combinations of the axes before `axis`
\* once each in descending row-major order, so the splice offsets are strictly
\* decreasing, and each offset, computed against the dimensions not yet
\* updated, is the end of its combination's run in the partly grown buffer.
SpliceLoopCoversPrefixes ==
    (/\ op = "push_dimension_default"
     /\ arg[1] < Len(prev.dimensions)
     /\ \A i \in 1..Len(prev.dimensions) : prev.dimensions[i] >= 1)
    => LET axis == arg[1]
           rank == Len(prev.dimensions)
           combinations == product(SubSeq(prev.dimensions, 1, axis))
           extend_size == product(SubSeq(prev.dimensions, axis + 2, rank))
           run == prev.dimensions[axis + 1] * extend_size
       IN  /\ result = "ok"
           /\ Len(splices) = combinations
           /\ Len(matrix.elements) = Len(prev.elements) + combinations * extend_size
           /\ \A k \in 1..(Len(splices) - 1) : splices[k] > splices[k + 1]
           /\ \A k \in 1..Len(splices) :
                  splices[k] + 1 = (combinations - k + 1) * run

\* the last axis of a [2,1,2] matrix was grown: two splices, the counter
\* borrowing from the first axis between them
TwoSplicesWithBorrow ==
    /\ op = "push_dimension_default"
    /\ result = "ok"
    /\ arg = <<2>>
    /\ prev.dimensions = <<2, 1, 2>>
    /\ splices = <<3, 1>>

\* ------------------------------------------------------------------ sessions
\* the records of the file: r records of w fields, and the ragged example of
\* the specification
Records(r, w) == [i \in 1..r |-> [j \in 1..w |-> "a"]]
Files ==
    {Records(r, w) : r \in 0..MaxFileRows, w \in 1..MaxFileWidth}
    \cup {<<<<"a", "b">>, <<"c">>>>}

\* no Matrix call is under way beside the session
NoCall ==
    /\ screen = NoScreen
    /\ matrix = MatrixDefault
    /\ prev = MatrixDefault
    /\ op = "idle"
    /\ arg = <<>>
    /\ rows = <<>>
    /\ result = "ok"
    /\ splices = <<>>

\* main up to the loop: the State of lines 49-56, no event read yet
SessionInit(files, header_counts) ==
    /\ NoCall
    /\ input = NoInput
    /\ \E records \in files, args_headers \in header_counts :
           IsState(main_state(records, args_headers))

\* ---- calls of the State methods
Deltas == (0 - MaxDelta)..MaxDelta

CallMoveView ==
    \E dy \in Deltas, dx \in Deltas :
        /\ Becomes(move_view(State, dy, dx))
        /\ op' = "move_view"
        /\ arg' = <<dy, dx>>
        /\ UNCHANGED <<matrix, prev, rows, result, splices, input, screen>>

CallMoveCursor ==
    \E dy \in Deltas, dx \in Deltas :
        /\ Becomes(move_cursor(State, dy, dx))
        /\ op' = "move_cursor"
        /\ arg' = <<dy, dx>>
        /\ UNCHANGED <<matrix, prev, rows, result, splices, input, screen>>

StateInit == SessionInit(Files, 0..MaxHeaders)
StateNext == CallMoveView \/ CallMoveCursor
StateSpec == StateInit /\ [][StateNext]_vars

\* ---- the event loop
Graphic == {"i", ":", "/", "v", "h", "j", "k", "l", "q", "u", "t", "x"}
Inputs ==
    {Character(ch) : ch \in Graphic \cup {Escape, Enter, " "}}
    \cup {Key("KeyBackspace"), Key("KeyResize"), Key("KeyMouse"), Key("KeyLeft")}

\* the keys of QuitSpec: enough to enter every mode and to type "quit"
QuitInputs ==
    {Character(ch) : ch \in {"i", ":", "/", "v", "q", "u", "t", Escape, Enter}}
    \cup {Key("KeyBackspace"), Key("KeyResize"), Key("KeyMouse")}

\* the arm of main's match that takes the event
arm(s, in) ==
    IF in = Key("KeyResize") THEN "KeyResize"
    ELSE IF in = Key("KeyMouse") THEN "KeyMouse"
    ELSE s.mode

\* one turn of the loop: getch returns `in`, the match runs.  The command
\* buffer is not typed past `cap` characters.
Turn(in, cap) ==
    /\ running
    /\ ~(/\ mode \in {"Command", "Search"}
         /\ in.kind = "Character"
         /\ is_ascii_graphic(in.ch)
         /\ Len(command) >= cap)
    /\ Becomes(dispatch(State, in))
    /\ input' = in
    /\ UNCHANGED mvars
    /\ UNCHANGED screen

OnKeyResize(in, cap) == arm(State, in) = "KeyResize" /\ Turn(in, cap)
OnKeyMouse(in, cap) == arm(State, in) = "KeyMouse" /\ Turn(in, cap)
OnView(in, cap) == arm(State, in) = "View" /\ Turn(in, cap)
OnInsert(in, cap) == arm(State, in) = "Insert" /\ Turn(in, cap)
OnCommand(in, cap) == arm(State, in) = "Command" /\ Turn(in, cap)
OnSearch(in, cap) == arm(State, in) = "Search" /\ Turn(in, cap)
OnNormal(in, cap) == arm(State, in) = "Normal" /\ Turn(in, cap)

Init == SessionInit(Files, 0..MaxHeaders)
Next ==
    \E in \in Inputs :
        \/ OnKeyResize(in, MaxCmdLen)
        \/ OnKeyMouse(in, MaxCmdLen)
        \/ OnView(in, MaxCmdLen)
        \/ OnInsert(in, MaxCmdLen)
        \/ OnCommand(in, MaxCmdLen)
        \/ OnSearch(in, MaxCmdLen)
        \/ OnNormal(in, MaxCmdLen)
Spec == Init /\ [][Next]_vars

\* the session of the specification's end-to-end example, typed with QuitInputs
QuitInit == SessionInit({<<<<"a", "b">>, <<"c">>>>}, {0})
QuitNext ==
    \E in \in QuitInputs :
        \/ OnKeyResize(in, MaxQuitLen)
        \/ OnKeyMouse(in, MaxQuitLen)
        \/ OnView(in, MaxQuitLen)
        \/ OnInsert(in, MaxQuitLen)
        \/ OnCommand(in, MaxQuitLen)
        \/ OnSearch(in, MaxQuitLen)
        \/ OnNormal(in, MaxQuitLen)
QuitSpec == QuitInit /\ [][QuitNext]_vars

\* ---- the cursor methods on the collections a caller can build
\* Cursor and State have public fields: move_cursor and goto_line are called on
\* any collection of cursors, pinned or not.  The collection main starts from
\* is one of them.
CursorValues ==
    [row : 0..(MaxFileRows - 1), column : 0..(MaxFileWidth - 1),
     position : 0..1, pinned : BOOLEAN]
CursorSets == SeqsUpTo(CursorValues, MaxCursors) \ {<<>>}

CursorInit ==
    /\ NoCall
    /\ input = NoInput
    /\ \E records \in Files, args_headers \in 0..MaxHeaders, cs \in CursorSets :
           IsState([main_state(records, args_headers) EXCEPT !.cursors = cs])

Lines == 0..MaxFileRows

CallGotoLine ==
    \E line \in Lines :
        /\ Becomes(goto_line(State, line))
        /\ op' = "goto_line"
        /\ arg' = <<line>>
        /\ UNCHANGED <<matrix, prev, rows, result, splices, input, screen>>

\* the keys of Normal mode that move the cursors
CursorInputs == {Character(ch) : ch \in {"j", "l"}}

\* a turn of the loop between two calls
KeyTaken ==
    \E in \in CursorInputs :
        /\ running
        /\ Becomes(dispatch(State, in))
        /\ input' = in
        /\ op' = "getch"
        /\ arg' = <<>>
        /\ UNCHANGED <<matrix, prev, rows, result, splices, screen>>

CursorNext == CallMoveCursor \/ CallGotoLine \/ KeyTaken
CursorSpec == CursorInit /\ [][CursorNext]_vars

\* ---- the loop with its render pass
TermRows == 0..MaxTermRows
TermCols == {4 * k : k \in 0..MaxTermCols}
ColumnWidths == {<<1, 1>>, <<2, 3>>}

\* the keys that move the cursors and the view
RenderInputs ==
    {Character(ch) : ch \in {"j", "l", "v", Escape}} \cup {Key("KeyResize")}

\* render(&window, &state) at the top of the loop (line 58)
Render ==
    /\ running
    /\ screen = NoScreen
    /\ \E column_width \in ColumnWidths, max_y \in TermRows, max_x \in TermCols,
          overflow_checks \in BOOLEAN :
           screen' = render(State, column_width, max_y, max_x, overflow_checks)
    /\ UNCHANGED mvars
    /\ UNCHANGED svars

\* window.getch() and the match (lines 59-92), once render has returned
Drawn(in) ==
    /\ running
    /\ screen.result = "ok"
    /\ Becomes(dispatch(State, in))
    /\ input' = in
    /\ screen' = NoScreen
    /\ UNCHANGED mvars

RenderInit == SessionInit(Files, 0..MaxHeaders)
RenderNext == Render \/ \E in \in RenderInputs : Drawn(in)
RenderSpec == RenderInit /\ [][RenderNext]_vars

\* ------------------------------------------------------------------ State properties
\* C5: from main's initial State, for every file and every --headers value,
\* whatever move_view and move_cursor calls are made, the view and every cursor
\* satisfy headers <= row < data_rows and 0 <= column < data_cols.
ViewAndCursorsInData ==
    /\ headers <= view[1] /\ view[1] < data.dimensions[1]
    /\ 0 <= view[2] /\ view[2] < data.dimensions[2]
    /\ \A i \in 1..Len(cursors) :
           /\ headers <= cursors[i].row /\ cursors[i].row < data.dimensions[1]
           /\ 0 <= cursors[i].column /\ cursors[i].column < data.dimensions[2]

\* C16: move_cursor(dy, dx) leaves every pinned cursor as it is (row, column,
\* position, pinned), clamps the row and the column of every other cursor
\* independently, and changes neither the number or order of the cursors nor
\* the view, the mode or the Matrix.
MoveCursorSkipsPinned ==
    [][(op' = "move_cursor") =>
          LET dy == arg'[1]
              dx == arg'[2]
              last_row == IF data.dimensions[1] = 0 THEN 0 ELSE data.dimensions[1] - 1
              last_column == IF data.dimensions[2] = 0 THEN 0 ELSE data.dimensions[2] - 1
              low(x, hi) == IF x > hi THEN hi ELSE x
              high(x, lo) == IF x < lo THEN lo ELSE x
          IN  /\ Len(cursors') = Len(cursors)
              /\ \A i \in 1..Len(cursors) :
                     IF cursors[i].pinned THEN cursors'[i] = cursors[i]
                     ELSE /\ cursors'[i].row = high(low(cursors[i].row + dy, last_row), headers)
                          /\ cursors'[i].column = high(low(cursors[i].column + dx, last_column), 0)
                          /\ cursors'[i].position = cursors[i].position
                          /\ ~cursors'[i].pinned
              /\ UNCHANGED <<view, mode, data, undo_stack, headers, status, command, running>>
      ]_vars

\* of a pinned cursor and a free one on a 2 x 2 file, only the free one moved
PinnedCursorStayed ==
    /\ op = "move_cursor"
    /\ arg = <<1, 1>>
    /\ headers = 0
    /\ Len(cursors) = 2
    /\ cursors[1] = [row |-> 0, column |-> 0, position |-> 1, pinned |-> TRUE]
    /\ cursors[2] = [row |-> 1, column |-> 1, position |-> 0, pinned |-> FALSE]

\* C17: goto_line(line), from any cursor collection (any number of cursors,
\* pinned or not), leaves exactly one cursor, at row = line, column = 0,
\* position = 0, unpinned; and after any sequence of goto_line, move_cursor and
\* input events the collection is never empty.
GotoLineLeavesOneCursor ==
    /\ Len(cursors) >= 1
    /\ \A line \in Lines :
           /\ Len(goto_line(State, line).cursors) = 1
           /\ Len(goto_line([State EXCEPT !.cursors = <<>>], line).cursors) = 1
    /\ (op = "goto_line")
       => cursors = <<[row |-> arg[1], column |-> 0, position |-> 0, pinned |-> FALSE]>>

\* goto_line(1) was called with --headers 1
WentToLine ==
    /\ op = "goto_line"
    /\ arg = <<1>>
    /\ headers = 1
    /\ Len(cursors) = 1

\* ------------------------------------------------------------------ event loop properties
Modes == {"Normal", "Insert", "Command", "Search", "View"}

\* the State after the loop has taken the events of `keys` in turn, stopping at
\* the break
RECURSIVE Run(_, _)
Run(s, keys) ==
    IF keys = <<>> \/ ~s.running THEN s
    ELSE Run(dispatch(s, Head(keys)), Tail(keys))

Typed(text) == [i \in 1..Len(text) |-> Character(text[i])]

\* C6: the loop ends only on Enter in Command mode with the buffer exactly
\* "quit"; after any other event in any mode (Enter in Search mode with buffer
\* "quit", Escape, a resize, a mouse event, ...) it is still running.
LoopEndsOnlyOnQuit ==
    [][running =>
         (~running' <=> (/\ mode = "Command"
                         /\ command = quit
                         /\ input' = Character(Enter)))]_vars

\* the loop has ended
LoopEnded == ~running /\ input = Character(Enter) /\ mode = "Normal"

\* C7: Enter in Command mode leaves the buffer empty; if the text taken is
\* "quit" the session ends, otherwise status is "unknown command '<text>'", the
\* mode is Normal and the session goes on.  From any Normal state the keys
\* : q u i t Enter end the session and : x Enter leave
\* "unknown command 'x'" in Normal mode.
CommandEnterQuitsOrReports ==
    /\ [](running /\ mode = "Normal"
          => /\ ~Run(State, Typed(<<":", "q", "u", "i", "t", Enter>>)).running
             /\ LET after == Run(State, Typed(<<":", "x", Enter>>))
                IN  /\ after.running
                    /\ after.mode = "Normal"
                    /\ after.status = <<"unknown command '", "x", "'">>
                    /\ after.command = <<>>)
    /\ [][running /\ mode = "Command" /\ input' = Character(Enter)
          => /\ command' = <<>>
             /\ IF command = quit THEN ~running'
                ELSE /\ running'
                     /\ mode' = "Normal"
                     /\ status' = (<<"unknown command '">> \o command \o <<"'">>)
         ]_vars

\* an unknown command was reported
UnknownCommandReported ==
    /\ running
    /\ mode = "Normal"
    /\ input = Character(Enter)
    /\ status = <<"unknown command '", "q", "u", "'">>
    /\ command = <<>>

\* C8: the mode starts as Normal and follows the transition table.
ModeFollowsTable ==
    /\ mode = "Normal"
    /\ [][running =>
          LET in == input'
              is(ch) == in = Character(ch)
          IN  /\ mode = "Normal" =>
                   /\ is("i") => mode' = "Insert"
                   /\ is(":") => mode' = "Command"
                   /\ is("/") => mode' = "Search"
                   /\ is("v") => mode' = "View"
                   /\ is("h") => mode' = "Normal" /\ cursors' = move_cursor(State, 0, -1).cursors
                   /\ is("j") => mode' = "Normal" /\ cursors' = move_cursor(State, 1, 0).cursors
                   /\ is("k") => mode' = "Normal" /\ cursors' = move_cursor(State, -1, 0).cursors
                   /\ is("l") => mode' = "Normal" /\ cursors' = move_cursor(State, 0, 1).cursors
                   /\ (is("h") \/ is("j") \/ is("k") \/ is("l")) => view' = view
              /\ mode = "View" =>
                   /\ is("h") => mode' = "View" /\ view' = move_view(State, 0, -1).view
                   /\ is("j") => mode' = "View" /\ view' = move_view(State, 1, 0).view
                   /\ is("k") => mode' = "View" /\ view' = move_view(State, -1, 0).view
                   /\ is("l") => mode' = "View" /\ view' = move_view(State, 0, 1).view
                   /\ (is("h") \/ is("j") \/ is("k") \/ is("l")) => cursors' = cursors
                   /\ is(":") => mode' = "Command"
                   /\ is("/") => mode' = "Search"
                   /\ is(Escape) => mode' = "Normal"
              /\ mode = "Insert" => (is(Escape) => mode' = "Normal")
              /\ mode \in {"Command", "Search"} =>
                   /\ is(Escape) => mode' = "Normal"
                   /\ is(Enter) => mode' = "Normal"]_vars

\* 'j' in Normal mode has moved the cursor down a row
CursorMovedDown ==
    /\ mode = "Normal"
    /\ input = Character("j")
    /\ headers = 0
    /\ cursors[1].row = 1

\* the pairs the transition table does not list
Unlisted(m, in) ==
    \/ in \in {Key("KeyResize"), Key("KeyMouse")}
    \/ /\ m = "Normal"
       /\ in \notin {Character(ch) : ch \in {"i", ":", "/", "v", "h", "j", "k", "l"}}
    \/ /\ m = "View"
       /\ in \notin {Character(ch) : ch \in {"h", "j", "k", "l", ":", "/", Escape}}
    \/ /\ m = "Insert"
       /\ in # Character(Escape)
    \/ /\ m \in {"Command", "Search"}
       /\ in \notin {Character(Escape), Character(Enter), Key("KeyBackspace")}
       /\ ~(in.kind = "Character" /\ is_ascii_graphic(in.ch))

\* C9: every (mode, input) pair has exactly one successor state, and for a pair
\* the transition table does not list the mode, the view, the cursors and the
\* Matrix are unchanged (the status or the command buffer may change).
UnlistedPairsChangeNothing ==
    /\ [](running => \A in \in Inputs :
              /\ arm(State, in) \in Modes \cup {"KeyResize", "KeyMouse"}
              /\ dispatch(State, in).mode \in Modes)
    /\ [][running => /\ Becomes(dispatch(State, input'))
                     /\ Unlisted(mode, input') =>
                            /\ UNCHANGED <<mode, view, cursors, data, undo_stack, headers>>
                            /\ running']_vars

\* 'i' was pressed in View mode
UnlistedKeyTaken ==
    /\ mode = "View"
    /\ input = Character("i")
    /\ view = <<1, 1>>

\* C10: the command buffer is empty in every reachable state whose mode is
\* Normal, Insert or View; so it is empty whenever ':' or '/' has moved the
\* machine from Normal or View into Command or Search.
BufferEmptyOutsidePrompt ==
    /\ [](mode \in {"Normal", "Insert", "View"} => command = <<>>)
    /\ [][(mode \in {"Normal", "View"}) /\ mode' \in {"Command", "Search"}
          => (command' = <<>>)
         ]_vars

\* Search mode has just been entered from View mode, after a command was typed
\* and abandoned
PromptEntered ==
    /\ mode = "Search"
    /\ input = Character("/")
    /\ command = <<>>

\* C11: in Command and Search mode a graphic character is appended to the end
\* of the command buffer and the mode stays; Backspace removes exactly the last
\* character (nothing from an empty buffer) and the mode stays; Escape empties
\* the buffer and the mode becomes Normal.  None of them changes the cursors,
\* the view or the Matrix.
CommandBufferEdits ==
    [][(running /\ mode \in {"Command", "Search"}) =>
          LET in == input'
              graphic == in.kind = "Character" /\ is_ascii_graphic(in.ch)
              backspace == in = Key("KeyBackspace")
              escape == in = Character(Escape)
          IN  /\ graphic => /\ command' = command \o <<in.ch>>
                            /\ mode' = mode
              /\ backspace => /\ mode' = mode
                              /\ IF command = <<>> THEN command' = <<>>
                                 ELSE /\ Len(command') = Len(command) - 1
                                      /\ command = command' \o <<command[Len(command)]>>
              /\ escape => /\ (command' = <<>>)
                           /\ mode' = "Normal"
              /\ (graphic \/ backspace \/ escape)
                     => UNCHANGED <<cursors, view, data, undo_stack>>
      ]_vars

\* Backspace has taken the second of two characters typed at the ':' prompt
LastCharacterRemoved ==
    /\ mode = "Command"
    /\ input = Key("KeyBackspace")
    /\ command = <<"q">>

\* C12: in Insert mode a graphic character is written into the Matrix cell at
\* the active cursor, that cursor's position advances by one, and the mode stays
\* Insert.
InsertWritesCharacter ==
    [][(/\ running
        /\ mode = "Insert"
        /\ input'.kind = "Character"
        /\ is_ascii_graphic(input'.ch))
       => /\ mode' = "Insert"
          /\ Len(cursors') = Len(cursors)
          /\ \E i \in 1..Len(cursors) :
                 LET at == <<cursors[i].row, cursors[i].column>>
                 IN  /\ cursors'[i].position = cursors[i].position + 1
                     /\ index(data', at).result = "ok"
                     /\ index(data', at).value # index(data, at).value
      ]_vars

\* C18: in every mode a resize event and a mouse event are taken by their own
\* arms, ahead of the mode's handler, and leave mode, command buffer, status,
\* view, cursors and Matrix unchanged; put before and after a key they do not
\* change the state that key leads to.
ResizeAndMouseChangeNothing ==
    /\ [](running =>
            \A e \in {Key("KeyResize"), Key("KeyMouse")} :
                /\ arm(State, e) = e.kind
                /\ dispatch(State, e) = State
                /\ \A in \in Inputs, f \in {Key("KeyResize"), Key("KeyMouse")} :
                       Run(State, <<e, in, f>>) = Run(State, <<in>>))
    /\ [][(running /\ input' \in {Key("KeyResize"), Key("KeyMouse")})
          => UNCHANGED <<mode, command, status, view, cursors, data, undo_stack,
                         headers, running>>
         ]_vars

\* the terminal was resized while a command was being typed
ResizedAtPrompt ==
    /\ input = Key("KeyResize")
    /\ mode = "Command"
    /\ command = <<"x">>

\* ------------------------------------------------------------------ render properties
\* C19: for every reachable state and every terminal size, render indexes the
\* Matrix only at coordinates inside it (header cells [i, column] for
\* i < headers, data cells [view.row + i, column] for i < rows_to_show, with
\* rows_to_show = min(data_rows - view.row, usable_rows / 2 - headers)), and it
\* changes no field of the State.
RenderReadsInsideData ==
    /\ \A k \in 1..Len(screen.reads) :
           /\ screen.reads[k][1] < data.dimensions[1]
           /\ screen.reads[k][2] < data.dimensions[2]
    /\ (screen.result = "ok")
       => \A k \in 1..Len(screen.reads) :
              \/ screen.reads[k][1] < headers
              \/ screen.reads[k][1] \in view[1]..(view[1] + screen.guides.rows_to_show - 1)

\* the number of decimal digits of n
RECURSIVE DecimalDigits(_)
DecimalDigits(n) == IF n < 10 THEN 1 ELSE 1 + DecimalDigits(n \div 10)

\* C20: for every view.row and rows_to_show >= 1, the gutter width render
\* computes is the number of decimal digits of the largest visible row index,
\* view.row + rows_to_show - 1, and at least 1; the first column starts at
\* x = gutter width + 2.
GutterWidthIsDigits ==
    (screen # NoScreen /\ screen.guides.rows_to_show >= 1)
    => /\ screen.guides.digits = DecimalDigits(view[1] + screen.guides.rows_to_show - 1)
       /\ screen.guides.digits >= 1
       /\ screen.guides.x = screen.guides.digits + 2

\* C22: no input event in any mode changes the Matrix (dimensions or cells) or
\* the undo stack; after any sequence of events the data is the data loaded at
\* startup and the undo stack is empty.
EventsLeaveDataAlone ==
    /\ [](undo_stack = <<>>)
    /\ [](\E records \in Files : data = from_iter(records, "").m)
    /\ [][UNCHANGED <<data, undo_stack>>]_vars

\* a character was typed in Insert mode over the ragged file
TypedInInsertMode ==
    /\ mode = "Insert"
    /\ input = Character("x")
    /\ data = [elements |-> <<"a", "b", "c", "">>, dimensions |-> <<2, 2>>]

\* C23: if headers < data_rows and the terminal has at least 2 * headers + 4
\* rows, then in every state reached by input events render returns with
\* rows_to_show >= 1, none of its unsigned subtractions underflows
\* (data_rows - view.row, usable_rows / 2 - headers, rows_to_show - 1,
\* cursors[0].row - headers, data_rows - headers), and the last row of the
\* grid lies above the status line.
RenderFitsTerminal ==
    (/\ screen # NoScreen
     /\ headers < data.dimensions[1]
     /\ screen.guides.max_y >= 2 * headers + 4)
    => LET g == screen.guides
           status_line == g.max_y - 1
       IN  /\ screen.result = "ok"
           /\ g.rows_to_show >= 1
           /\ g.rows_to_show <= data.dimensions[1] - view[1]
           /\ g.underflows = {}
           /\ g.bottom_position - 1 < status_line
           /\ g.y + (g.rows_to_show - 1) * 2 + 1 < status_line

\* the view was scrolled to the last row and column of a file with a header
\* row, and drawn on six terminal rows
ScrolledViewDrawn ==
    /\ screen.result = "ok"
    /\ mode = "View"
    /\ headers = 1
    /\ view = <<1, 1>>
    /\ screen.guides.max_y = 6
    /\ screen.guides.rows_to_show = 1
    /\ screen.reads = <<<<0, 1>>, <<1, 1>>>>
====
